---- MODULE Spec2Model ----
(***************************************************************************)
(* A model of graphing.py: the row classifier, the per-file reducer, the   *)
(* series builder, the delta series builder and the chart renderer of the  *)
(* COVID-19 graph generator, and the run of the script that chains them.   *)
(*                                                                         *)
(* Python values are modelled as follows.                                  *)
(*   str                 a TLA+ string                                     *)
(*   dict (a CSV row)    a function from its keys to its values            *)
(*   list / tuple        a sequence                                        *)
(*   datetime            <<year, month, day>>                              *)
(*   None or an int      <<>> for None, <<n>> for the int n                *)
(*   a call that raises  a record whose err field names the exception      *)
(***************************************************************************)
EXTENDS Integers, Sequences, FiniteSets, TLC

VARIABLES
    pc,              \* where the script, or the call under study, stands
    active_country,  \* Generator.active_country
    row,             \* the row handed to row_filter
    file,            \* the file handed to process_file
    files,           \* the daily reports, in the order glob enumerates them
    config,          \* Generator.config: shift, any_case, graphs
    data,            \* Generator.data
    deltas,          \* the deltas list generate_rate_delta_graph hands on
    images,          \* the images written so far, in the order of writing
    error,           \* <<>>, or <<stage, exception>> of the raise that ended the run
    result           \* the outcome of the call under study

vars == <<pc, active_country, row, file, files, config, data, deltas, images,
          error, result>>

(***************************************************************************)
(* Bounds of the model.                                                    *)
(***************************************************************************)
MaxLines == 2
MaxFiles == 3
MaxLen == 3
MaxShift == 2

(***************************************************************************)
(* Generic helpers.                                                        *)
(***************************************************************************)
Range(s) == {s[i] : i \in 1..Len(s)}

Min(a, b) == IF a < b THEN a ELSE b

Max(a, b) == IF a > b THEN a ELSE b

\* x in l, for a Python list l.
InList(x, l) == \E i \in 1..Len(l) : l[i] = x

(***************************************************************************)
(* The country table.                                                      *)
(***************************************************************************)
CountryNames == {"UK", "Italy"}

countries ==
    [c \in CountryNames |->
        IF c = "UK"
        THEN [country |-> <<"UK", "United Kingdom">>,
              state |-> <<"", "UK", "United Kingdom">>]
        ELSE [country |-> <<"Italy">>,
              state |-> <<"">>]]

(***************************************************************************)
(* Generator.row_filter.  The result is "True", "False", "Exception" (the  *)
(* raise of the last line) or "KeyError" (a subscript of a missing key).   *)
(* `a and b` evaluates b only when a is true.                              *)
(***************************************************************************)
PyBool(b) == IF b THEN "True" ELSE "False"

row_filter(country_name, r) ==
    LET country == countries[country_name] IN
    IF "Country_Region" \in DOMAIN r
    THEN IF ~InList(r["Country_Region"], country.country)
         THEN "False"
         ELSE IF "Province_State" \in DOMAIN r
              THEN PyBool(InList(r["Province_State"], country.state))
              ELSE "KeyError"
    ELSE IF "Country/Region" \in DOMAIN r
    THEN IF ~InList(r["Country/Region"], country.country)
         THEN "False"
         ELSE IF "Province/State" \in DOMAIN r
              THEN PyBool(InList(r["Province/State"], country.state))
              ELSE "KeyError"
    ELSE "Exception"

(***************************************************************************)
(* Rows for the classifier: every dict over a subset of the four region    *)
(* and state keys, with values in and out of the accepted lists.           *)
(***************************************************************************)
SchemeKeys == {"Country_Region", "Province_State", "Country/Region", "Province/State"}

PlaceValues == {"", "UK", "United Kingdom", "Italy", "Wales"}

ClassifierRows == UNION {[K -> PlaceValues] : K \in SUBSET SchemeKeys}

(***************************************************************************)
(* File names.  A name [m, d, y, pad] is the file MM-DD-YYYY.csv when pad, *)
(* and M-D-YYYY.csv (no leading zeros) when not; the two are different     *)
(* files of the directory.  filename.name.rstrip('.csv') leaves the part   *)
(* before the extension, since that part ends in a digit.                  *)
(***************************************************************************)
IsLeap(y) == (y % 4 = 0 /\ y % 100 # 0) \/ y % 400 = 0

DaysIn(m, y) ==
    IF m = 2 THEN (IF IsLeap(y) THEN 29 ELSE 28)
    ELSE IF m \in {4, 6, 9, 11} THEN 30 ELSE 31

\* datetime.strptime(stem, '%d-%m-%Y'): the day and month fields swapped.
strptime_dmy(name) ==
    IF /\ name.d \in 1..12
       /\ name.y \in 1..9999
       /\ name.m \in 1..DaysIn(name.d, name.y)
    THEN [err |-> "", val |-> <<name.y, name.d, name.m>>]
    ELSE [err |-> "ValueError", val |-> <<>>]

\* datetime.strptime(stem, '%m-%d-%Y'): %m and %d take one or two digits,
\* and the fields have to make a date of the calendar.
strptime(name) ==
    IF /\ name.m \in 1..12
       /\ name.y \in 1..9999
       /\ name.d \in 1..DaysIn(name.m, name.y)
    THEN [err |-> "", val |-> <<name.y, name.m, name.d>>]
    ELSE [err |-> "ValueError", val |-> <<>>]

(***************************************************************************)
(* csv.DictReader: each line becomes the dict of the header's column names *)
(* to the line's fields.  Lines have as many fields as the header.         *)
(***************************************************************************)
\* A column name met twice keeps the field of its last column.
DictRow(header, line) ==
    [k \in Range(header) |->
        line[CHOOSE i \in 1..Len(header) :
                /\ header[i] = k
                /\ \A j \in (i + 1)..Len(header) : header[j] # k]]

DictReader(f) == [i \in 1..Len(f.lines) |-> DictRow(f.header, f.lines[i])]

(***************************************************************************)
(* int(v or 0) for a CSV field v.  The empty string is 0.  int() of any    *)
(* other string drops the white space around it, takes one sign, and reads *)
(* decimal digits of any script, leading zeros and single underscores      *)
(* between digits included; anything else raises ValueError.               *)
(***************************************************************************)
\* The decimal digits a string of the model can hold, one row per script,
\* each from its zero to its nine: the ASCII digits and the rows that start
\* at U+06F0, U+07C0, U+09E6, U+0AE6, U+0BE6, U+0CE6, U+0DE6, U+0ED0,
\* U+1090, U+17E0, U+19D0, U+1A80, U+1A90, U+1BB0, U+A8D0, U+A9D0, U+A9F0,
\* U+ABF0.  int() reads the digits of every other script as well; those are
\* characters no string of the model holds.
DigitRows ==
    {"0123456789",
     "۰۱۲۳۴۵۶۷۸۹",
     "߀߁߂߃߄߅߆߇߈߉",
     "০১২৩৪৫৬৭৮৯",
     "૦૧૨૩૪૫૬૭૮૯",
     "௦௧௨௩௪௫௬௭௮௯",
     "೦೧೨೩೪೫೬೭೮೯",
     "෦෧෨෩෪෫෬෭෮෯",
     "໐໑໒໓໔໕໖໗໘໙",
     "႐႑႒႓႔႕႖႗႘႙",
     "០១២៣៤៥៦៧៨៩",
     "᧐᧑᧒᧓᧔᧕᧖᧗᧘᧙",
     "᪀᪁᪂᪃᪄᪅᪆᪇᪈᪉",
     "᪐᪑᪒᪓᪔᪕᪖᪗᪘᪙",
     "᮰᮱᮲᮳᮴᮵᮶᮷᮸᮹",
     "꣐꣑꣒꣓꣔꣕꣖꣗꣘꣙",
     "꧐꧑꧒꧓꧔꧕꧖꧗꧘꧙",
     "꧰꧱꧲꧳꧴꧵꧶꧷꧸꧹",
     "꯰꯱꯲꯳꯴꯵꯶꯷꯸꯹"}

\* The characters int() drops around the number that a string of the model
\* can hold: the ASCII white space (space, \t, \n, \r, \f and the vertical
\* tab U+000B), U+0085, U+00A0 and U+1680.  int() drops the spaces U+2000 to
\* U+200A, U+2028, U+2029, U+202F, U+205F and U+3000 too; those are
\* characters no string of the model holds.  It does not drop the
\* separators U+001C to U+001F.
VerticalTab == ""

NextLine == ""

NoBreakSpace == " "

OghamSpace == " "

Whitespace ==
    {" ", "\t", "\n", "\r", "\f", VerticalTab, NextLine, NoBreakSpace, OghamSpace}

CharAt(s, i) == SubSeq(s, i, i)

IsDigit(c) == \E r \in DigitRows : \E n \in 0..9 : CharAt(r, n + 1) = c

DigitValue(c) == CHOOSE n \in 0..9 : \E r \in DigitRows : CharAt(r, n + 1) = c

\* The first index from i on that holds no white space, Len(s) + 1 if none.
RECURSIVE skip_space(_, _)
skip_space(s, i) ==
    IF i <= Len(s) /\ CharAt(s, i) \in Whitespace THEN skip_space(s, i + 1) ELSE i

\* The last index up to i that holds no white space, 0 if none.
RECURSIVE skip_space_back(_, _)
skip_space_back(s, i) ==
    IF i >= 1 /\ CharAt(s, i) \in Whitespace THEN skip_space_back(s, i - 1) ELSE i

\* The digits s[i..hi]: after_digit tells that s[i-1] was a digit.
RECURSIVE read_digits(_, _, _, _, _)
read_digits(s, i, hi, acc, after_digit) ==
    IF i > hi
    THEN IF after_digit THEN [err |-> "", val |-> acc]
         ELSE [err |-> "ValueError", val |-> 0]
    ELSE LET c == CharAt(s, i) IN
         IF IsDigit(c) THEN read_digits(s, i + 1, hi, acc * 10 + DigitValue(c), TRUE)
         ELSE IF c = "_" /\ after_digit THEN read_digits(s, i + 1, hi, acc, FALSE)
         ELSE [err |-> "ValueError", val |-> 0]

\* int(s) for a str s.
py_int(s) ==
    LET lo == skip_space(s, 1)
        hi == skip_space_back(s, Len(s))
        signed == lo <= hi /\ CharAt(s, lo) \in {"+", "-"}
        r == read_digits(s, IF signed THEN lo + 1 ELSE lo, hi, 0, FALSE) IN
    IF r.err # "" THEN r
    ELSE IF signed /\ CharAt(s, lo) = "-" THEN [err |-> "", val |-> 0 - r.val]
    ELSE r

int_or_zero(v) == IF v = "" THEN [err |-> "", val |-> 0] ELSE py_int(v)

(***************************************************************************)
(* next(row for row in reader if self.row_filter(row)): the index of the   *)
(* first row the classifier accepts.  A raise of the classifier on an      *)
(* earlier row ends the scan; running out of rows is StopIteration.        *)
(***************************************************************************)
RECURSIVE last_match(_, _, _)
last_match(country_name, rows, i) ==
    IF i < 1 THEN [err |-> "StopIteration", idx |-> 0]
    ELSE LET rf == row_filter(country_name, rows[i]) IN
         IF rf = "True" THEN [err |-> "", idx |-> i]
         ELSE IF rf = "False" THEN last_match(country_name, rows, i - 1)
         ELSE [err |-> rf, idx |-> 0]

first_match_last(country_name, rows, i) == last_match(country_name, rows, Len(rows))

RECURSIVE first_match(_, _, _)
first_match(country_name, rows, i) ==
    IF i > Len(rows) THEN [err |-> "StopIteration", idx |-> 0]
    ELSE LET rf == row_filter(country_name, rows[i]) IN
         IF rf = "True" THEN [err |-> "", idx |-> i]
         ELSE IF rf = "False" THEN first_match(country_name, rows, i + 1)
         ELSE [err |-> rf, idx |-> 0]

(***************************************************************************)
(* Generator.process_file: [err, val], val the tuple (date, confirmed,     *)
(* deaths) when err is "".                                                 *)
(***************************************************************************)
Raise(e) == [err |-> e, val |-> <<>>]

process_file(country_name, f) ==
    LET date == strptime(f.name) IN
    IF date.err # "" THEN Raise(date.err)
    ELSE
    LET rows == DictReader(f)
        m == first_match(country_name, rows, 1) IN
    IF m.err = "StopIteration" THEN [err |-> "", val |-> <<date.val, 0, 0>>]
    ELSE IF m.err # "" THEN Raise(m.err)
    ELSE
    LET d == rows[m.idx] IN
    IF "Confirmed" \notin DOMAIN d THEN Raise("KeyError")
    ELSE
    LET confirmed == int_or_zero(d["Confirmed"]) IN
    IF confirmed.err # "" THEN Raise(confirmed.err)
    ELSE IF "Deaths" \notin DOMAIN d THEN Raise("KeyError")
    ELSE
    LET deaths == int_or_zero(d["Deaths"]) IN
    IF deaths.err # "" THEN Raise(deaths.err)
    ELSE [err |-> "", val |-> <<date.val, confirmed.val, deaths.val>>]

(***************************************************************************)
(* Files for the reducer.  The headers are the two column schemes, a       *)
(* header of neither scheme, a header without the Confirmed column, a      *)
(* header with the region column of a scheme and not its state column, and *)
(* a header with Country_Region next to the full Country/Region scheme.    *)
(* The two count columns come last.                                        *)
(***************************************************************************)
Name(m, d, y, pad) == [m |-> m, d |-> d, y |-> y, pad |-> pad]

Header1 == <<"Province_State", "Country_Region", "Confirmed", "Deaths">>

Header2 == <<"Province/State", "Country/Region", "Confirmed", "Deaths">>

HeaderOther == <<"State", "Country", "Confirmed", "Deaths">>

HeaderNoConfirmed == <<"Province_State", "Country_Region", "Cases", "Deaths">>

HeaderRegionOnly1 == <<"State", "Country_Region", "Confirmed", "Deaths">>

HeaderRegionOnly2 == <<"State", "Country/Region", "Confirmed", "Deaths">>

HeaderMixed ==
    <<"Country_Region", "Province/State", "Country/Region", "Confirmed", "Deaths">>

Headers ==
    {Header1, Header2, HeaderOther, HeaderNoConfirmed, HeaderRegionOnly1,
     HeaderRegionOnly2, HeaderMixed}

ReducerNames ==
    {Name(1, 22, 2020, TRUE), Name(1, 22, 2020, FALSE), Name(2, 30, 2020, TRUE)}

\* The fields of a line under the place columns: a state column holds "" or
\* "Wales", a region column "UK" or "Italy".
PlaceFieldsOf(column) ==
    IF column \in {"Province_State", "Province/State", "State"}
    THEN {"", "Wales"}
    ELSE {"UK", "Italy"}

\* The fields of a line under the two count columns.  They are ASCII
\* strings; one is a negative number with white space around it, a vertical
\* tab included, one is no number.
CountFields ==
    {<<"", "">>, <<"3", "">>, <<"", "1">>, <<" -12" \o VerticalTab, "1">>,
     <<"n/a", "1">>, <<"3", "n/a">>}

\* The lines of a file with this header: as many fields as columns.
ReducerLines(header) ==
    LET places == Len(header) - 2 IN
    {[i \in 1..Len(header) |-> IF i <= places THEN p[i] ELSE c[i - places]] :
        p \in {q \in [1..places -> {"", "Wales", "UK", "Italy"}] :
                  \A i \in 1..places : q[i] \in PlaceFieldsOf(header[i])},
        c \in CountFields}

(***************************************************************************)
(* time_series.sort(key=itemgetter(0)): a stable sort on the date.  Dates  *)
(* <<year, month, day>> compare as datetimes do.                           *)
(***************************************************************************)
DateLess(a, b) ==
    \/ a[1] < b[1]
    \/ a[1] = b[1] /\ a[2] < b[2]
    \/ a[1] = b[1] /\ a[2] = b[2] /\ a[3] < b[3]

\* rec put into the sorted list s, after every entry whose date is not later.
RECURSIVE insert_stable(_, _)
insert_stable(rec, s) ==
    IF s = <<>> THEN <<rec>>
    ELSE IF DateLess(rec[1], s[1][1]) THEN <<rec>> \o s
    ELSE <<s[1]>> \o insert_stable(rec, Tail(s))

\* rec put before the entries of the same date: a sort that is not stable.
RECURSIVE insert_before_equal(_, _)
insert_before_equal(rec, s) ==
    IF s = <<>> THEN <<rec>>
    ELSE IF ~DateLess(s[1][1], rec[1]) THEN <<rec>> \o s
    ELSE <<s[1]>> \o insert_before_equal(rec, Tail(s))

RECURSIVE sort_unstable(_)
sort_unstable(s) ==
    IF s = <<>> THEN <<>>
    ELSE insert_before_equal(s[Len(s)], sort_unstable(SubSeq(s, 1, Len(s) - 1)))

RECURSIVE sort_by_date(_)
sort_by_date(s) ==
    IF s = <<>> THEN <<>>
    ELSE insert_stable(s[Len(s)], sort_by_date(SubSeq(s, 1, Len(s) - 1)))

(***************************************************************************)
(* Generator.get_data: process_file mapped over the files in enumeration   *)
(* order, the first raise ending the call, then the sort.                  *)
(***************************************************************************)
RECURSIVE map_process_file(_, _, _)
map_process_file(country_name, fs, i) ==
    IF i > Len(fs) THEN [err |-> "", val |-> <<>>]
    ELSE LET r == process_file(country_name, fs[i]) IN
         IF r.err # "" THEN Raise(r.err)
         ELSE LET rest == map_process_file(country_name, fs, i + 1) IN
              IF rest.err # "" THEN rest
              ELSE [err |-> "", val |-> <<r.val>> \o rest.val]

get_data(country_name, fs) ==
    LET time_series == map_process_file(country_name, fs, 1) IN
    IF time_series.err # "" THEN time_series
    ELSE [err |-> "", val |-> sort_by_date(time_series.val)]

(***************************************************************************)
(* The loop of generate_rate_delta_graph.  p is the previous record, <<>>  *)
(* for None; `not p_date` holds of None only, a datetime being true.       *)
(***************************************************************************)
RECURSIVE deltas_loop(_, _, _, _)
deltas_loop(series, i, p, acc) ==
    IF i > Len(series) THEN acc
    ELSE IF p = <<>> THEN deltas_loop(series, i + 1, <<series[i]>>, acc)
    ELSE deltas_loop(series, i + 1, <<series[i]>>,
             Append(acc, <<series[i][1],
                           series[i][2] - p[1][2],
                           series[i][3] - p[1][3]>>))

\* The first record kept, with zero differences.
rate_deltas_zero_filled(series) ==
    IF series = <<>> THEN <<>>
    ELSE deltas_loop(series, 2, <<series[1]>>, <<<<series[1][1], 0, 0>>>>)

rate_deltas(series) == deltas_loop(series, 1, <<>>, <<>>)

(***************************************************************************)
(* Generator.write_graph.                                                  *)
(***************************************************************************)
MonthAbbr ==
    <<"Jan", "Feb", "Mar", "Apr", "May", "Jun",
      "Jul", "Aug", "Sep", "Oct", "Nov", "Dec">>

\* date.strftime('%d %b')
strftime(date) == <<date[3], MonthAbbr[date[2]]>>

\* s[k:] of a Python list: a negative k counts from the end.
PySliceFrom(s, k) ==
    LET n == Len(s)
        start == IF k < 0 THEN Max(n + k, 0) ELSE Min(k, n) IN
    SubSeq(s, start + 1, n)

OffsetTest(any_case, c, d) == IF any_case THEN c + d > 0 ELSE c > 0 /\ d > 0

\* next(index for index, (c, d) in enumerate(zip(confirmed, deaths)) if ...),
\* from the 0-based index i on: <<index>>, or <<>> for StopIteration.
RECURSIVE find_offset_from(_, _, _, _)
find_offset_from(any_case, confirmed, deaths, i) ==
    IF i >= Len(confirmed) THEN <<>>
    ELSE IF OffsetTest(any_case, confirmed[i + 1], deaths[i + 1]) THEN <<i>>
    ELSE find_offset_from(any_case, confirmed, deaths, i + 1)

\* The two branches of the any_case test exchanged.
find_offset_swapped(any_case, confirmed, deaths) ==
    find_offset_from(~any_case, confirmed, deaths, 0)

\* next(..., 0): index 0 when no index passes the test.
find_offset_default(any_case, confirmed, deaths) ==
    LET r == find_offset_from(any_case, confirmed, deaths, 0) IN
    IF r = <<>> THEN <<0>> ELSE r

find_offset(any_case, confirmed, deaths) ==
    find_offset_from(any_case, confirmed, deaths, 0)

\* generate_filename, without the log suffix: the country, the graph type,
\* and <<shift>> for 'shifted-<shift>-days' or <<>> for 'unshifted'.
generate_filename(country_name, cfg, graph_type) ==
    [country |-> country_name,
     graph_type |-> graph_type,
     shifted |-> IF cfg.shift = <<>> \/ cfg.shift = <<0>> THEN <<>> ELSE cfg.shift]

\* [err, val]: val the image written, its name, its x labels and two bars.
write_graph(country_name, cfg, graph_type, time_series) ==
    LET time_shift == IF cfg.shift = <<>> \/ cfg.shift = <<0>> THEN 0 ELSE cfg.shift[1]
        x == [i \in 1..Len(time_series) |-> strftime(time_series[i][1])]
        confirmed == [i \in 1..Len(time_series) |-> time_series[i][2]]
        deaths == [i \in 1..Len(time_series) |-> time_series[i][3]]
        offset == find_offset(cfg.any_case, confirmed, deaths) IN
    IF offset = <<>> THEN Raise("StopIteration")
    ELSE [err |-> "",
          val |-> [filename |-> generate_filename(country_name, cfg, graph_type),
                   x |-> PySliceFrom(x, offset[1]),
                   confirmed |-> PySliceFrom(confirmed, offset[1]),
                   deaths |-> PySliceFrom(PySliceFrom(deaths, offset[1]), time_shift)]]

NoRow == <<>>

NoFile == [name |-> <<>>, header |-> <<>>, lines |-> <<>>]

NoConfig == [shift |-> <<>>, any_case |-> FALSE, graphs |-> {}]

NoResult == [err |-> "", val |-> <<>>]

InitRow ==
    /\ pc = "row"
    /\ active_country \in CountryNames
    /\ row \in ClassifierRows
    /\ file = NoFile
    /\ files = <<>>
    /\ config = NoConfig
    /\ data = <<>>
    /\ deltas = <<>>
    /\ images = <<>>
    /\ error = <<>>
    /\ result = NoResult

\* One call of row_filter on the row.
RowFilter ==
    /\ pc = "row"
    /\ pc' = "row_done"
    /\ result' = [err |-> "", val |-> <<row_filter(active_country, row)>>]
    /\ UNCHANGED <<active_country, row, file, files, config, data, deltas, images, error>>

NextRow == RowFilter

SpecRow == InitRow /\ [][NextRow]_vars

\* A row carries the keys of a column scheme when it has both of them.
HasScheme1(r) == {"Country_Region", "Province_State"} \subseteq DOMAIN r

HasScheme2(r) == {"Country/Region", "Province/State"} \subseteq DOMAIN r

HasNoScheme(r) == ~HasScheme1(r) /\ ~HasScheme2(r)

Accepted(country_name, region, state) ==
    /\ region \in Range(countries[country_name].country)
    /\ state \in Range(countries[country_name].state)

\* C1: for a row carrying the keys of one of the two column schemes,
\* row_filter is true iff the region value is in the country's accepted
\* 'country' list and the state value is in its accepted 'state' list, and
\* false otherwise (a row carrying the keys of both schemes may be read by
\* either); for a row carrying the keys of neither scheme, it raises the
\* schema error.
C1_AsStated ==
    pc = "row_done" =>
        LET got == result.val[1]
            by1 == PyBool(Accepted(active_country, row["Country_Region"],
                                   row["Province_State"]))
            by2 == PyBool(Accepted(active_country, row["Country/Region"],
                                   row["Province/State"])) IN
        /\ (HasScheme1(row) /\ ~HasScheme2(row)) => got = by1
        /\ (HasScheme2(row) /\ ~HasScheme1(row)) => got = by2
        /\ (HasScheme1(row) /\ HasScheme2(row)) => got \in {by1, by2}
        /\ HasNoScheme(row) => got = "Exception"

\* What row_filter does on every row: the region key alone selects the
\* scheme, Country_Region before Country/Region; a region value outside the
\* accepted list gives false whether or not the state key is there, and a
\* region value inside it needs the state key of the same scheme.
C1_SchemeByRegionKey ==
    pc = "row_done" =>
        LET got == result.val[1]
            region == IF "Country_Region" \in DOMAIN row THEN "Country_Region"
                      ELSE "Country/Region"
            state == IF "Country_Region" \in DOMAIN row THEN "Province_State"
                     ELSE "Province/State" IN
        IF region \notin DOMAIN row THEN got = "Exception"
        ELSE IF row[region] \notin Range(countries[active_country].country)
        THEN got = "False"
        ELSE IF state \notin DOMAIN row THEN got = "KeyError"
        ELSE got = PyBool(row[state] \in Range(countries[active_country].state))

InitFile ==
    /\ pc = "file"
    /\ active_country \in CountryNames
    /\ row = NoRow
    /\ \E h \in Headers, k \in 0..MaxLines :
          file \in [name : ReducerNames, header : {h},
                    lines : [1..k -> ReducerLines(h)]]
    /\ files = <<>>
    /\ config = NoConfig
    /\ data = <<>>
    /\ deltas = <<>>
    /\ images = <<>>
    /\ error = <<>>
    /\ result = NoResult

\* One call of process_file on the file.
ProcessFile ==
    /\ pc = "file"
    /\ pc' = "file_done"
    /\ result' = process_file(active_country, file)
    /\ UNCHANGED <<active_country, row, file, files, config, data, deltas, images, error>>

NextFile == ProcessFile

SpecFile == InitFile /\ [][NextFile]_vars

(***************************************************************************)
(* The run of the script: Generator(args), then the basic graph, then the  *)
(* delta graph.  A raise ends the run: nothing catches it.                 *)
(***************************************************************************)
DefaultShift == 14

Shifts == {<<>>, <<DefaultShift>>} \cup {<<k>> : k \in -MaxShift..MaxShift}

GraphChoices == {{"basic"}, {"delta"}, {"basic", "delta"}}

Configs == [shift : Shifts, any_case : BOOLEAN, graphs : GraphChoices]

\* Generator.__init__: the data is loaded from the files.
Construct ==
    /\ pc = "init"
    /\ LET r == get_data(active_country, files) IN
       IF r.err # ""
       THEN /\ pc' = "failed"
            /\ error' = <<"get_data", r.err>>
            /\ data' = data
       ELSE /\ pc' = "basic"
            /\ error' = error
            /\ data' = r.val
    /\ UNCHANGED <<active_country, row, file, files, config, deltas, images, result>>

\* if 'basic' in args.graphs: generator.generate_basic_data_graph()
MainBasic ==
    /\ pc = "basic"
    /\ IF "basic" \in config.graphs
       THEN LET r == write_graph(active_country, config, "cases", data) IN
            IF r.err # ""
            THEN /\ pc' = "failed"
                 /\ error' = <<"basic", r.err>>
                 /\ images' = images
            ELSE /\ pc' = "delta"
                 /\ error' = error
                 /\ images' = Append(images, r.val)
       ELSE /\ pc' = "delta"
            /\ error' = error
            /\ images' = images
    /\ UNCHANGED <<active_country, row, file, files, config, data, deltas, result>>

\* The delta graph attempted from pc, whatever came before.
DeltaStep ==
    IF "delta" \in config.graphs
    THEN LET ds == rate_deltas(data)
             r == write_graph(active_country, config, "deltas", ds) IN
         /\ deltas' = ds
         /\ IF r.err # ""
            THEN /\ pc' = "failed"
                 /\ error' = <<"delta", r.err>>
                 /\ images' = images
            ELSE /\ pc' = "exit"
                 /\ error' = error
                 /\ images' = Append(images, r.val)
    ELSE /\ pc' = "exit"
         /\ error' = error
         /\ images' = images
         /\ deltas' = deltas

\* The script going on to the delta graph after a raise in the basic graph.
MainDeltaAfterRaise ==
    /\ pc = "delta" \/ (pc = "failed" /\ error[1] = "basic")
    /\ DeltaStep
    /\ UNCHANGED <<active_country, row, file, files, config, data, result>>

\* if 'delta' in args.graphs: generator.generate_rate_delta_graph()
MainDelta ==
    /\ pc = "delta"
    /\ DeltaStep
    /\ UNCHANGED <<active_country, row, file, files, config, data, result>>

(***************************************************************************)
(* The whole run, from a directory of daily reports.  The files of a       *)
(* directory have different names.                                         *)
(***************************************************************************)
RunNames ==
    {Name(12, 31, 2019, TRUE), Name(1, 22, 2020, TRUE), Name(1, 22, 2020, FALSE),
     Name(2, 30, 2020, TRUE)}

RunContents ==
    {[header |-> Header1, lines |-> <<<<"", "UK", "", "">>>>],
     [header |-> Header1, lines |-> <<<<"", "UK", "3", "1">>>>],
     [header |-> Header2, lines |-> <<>>],
     [header |-> HeaderOther, lines |-> <<<<"", "UK", "3", "1">>>>]}

RunFiles ==
    {[name |-> n, header |-> c.header, lines |-> c.lines] : n \in RunNames, c \in RunContents}

DirectoriesOf(k) ==
    {fs \in [1..k -> RunFiles] :
        \A i, j \in 1..k : i # j => fs[i].name # fs[j].name}

RunConfigs == {c \in Configs : c.shift \in {<<0>>, <<1>>}}

Init ==
    /\ pc = "init"
    /\ active_country = "UK"
    /\ row = NoRow
    /\ file = NoFile
    /\ \E k \in 0..MaxFiles : files \in DirectoriesOf(k)
    /\ config \in RunConfigs
    /\ data = <<>>
    /\ deltas = <<>>
    /\ images = <<>>
    /\ error = <<>>
    /\ result = NoResult

Next == Construct \/ MainBasic \/ MainDelta

Spec == Init /\ [][Next]_vars

(***************************************************************************)
(* The graphs, from the state the constructor leaves: any series sorted by *)
(* date, here one record a day from 30 January 2020 on.                    *)
(***************************************************************************)
DayOf(i) == IF i <= 2 THEN <<2020, 1, 29 + i>> ELSE <<2020, 2, i - 2>>

Counts == {-1, 0, 1}

SeriesOfLen(n) ==
    {[i \in 1..n |-> <<DayOf(i), cd[i][1], cd[i][2]>>] :
        cd \in [1..n -> Counts \X Counts]}

InitGraph ==
    /\ pc = "basic"
    /\ active_country = "UK"
    /\ row = NoRow
    /\ file = NoFile
    /\ files = <<>>
    /\ config \in Configs
    /\ \E n \in 0..MaxLen : data \in SeriesOfLen(n)
    /\ deltas = <<>>
    /\ images = <<>>
    /\ error = <<>>
    /\ result = NoResult

NextGraph == MainBasic \/ MainDelta

SpecGraph == InitGraph /\ [][NextGraph]_vars

\* The date a file name spells, when its fields make a calendar date.
NameDate(name) == <<name.y, name.m, name.d>>

ValidName(name) ==
    /\ name.m \in 1..12
    /\ name.d >= 1
    /\ name.d <= DaysIn(name.m, name.y)

\* The count fields of the files that spell an integer, and the integer.
FieldValue == ("" :> 0) @@ ("1" :> 1) @@ ("3" :> 3) @@ ((" -12" \o VerticalTab) :> -12)

\* The rows a reader yields that row_filter accepts: Country_Region, when a
\* row has it, is the region key read, and the row then needs Province_State.
Classified(r) ==
    \/ HasScheme1(r)
    \/ HasScheme2(r) /\ "Country_Region" \notin DOMAIN r

AcceptedRow(country_name, r) ==
    \/ HasScheme1(r) /\ Accepted(country_name, r["Country_Region"], r["Province_State"])
    \/ /\ HasScheme2(r)
       /\ "Country_Region" \notin DOMAIN r
       /\ Accepted(country_name, r["Country/Region"], r["Province/State"])

AcceptedIndexes(country_name, f) ==
    {i \in 1..Len(f.lines) : AcceptedRow(country_name, DictRow(f.header, f.lines[i]))}

SetMin(S) == CHOOSE x \in S : \A y \in S : x <= y

\* C2 as stated: for every file named MM-DD-YYYY.csv, process_file produces
\* a record whose date is the date of the file name, whatever the content.
C2_AsStated ==
    (pc = "file_done" /\ file.name.pad /\ ValidName(file.name)) =>
        /\ result.err = ""
        /\ result.val[1] = NameDate(file.name)

\* A count field of the row that is there and is neither empty nor an integer.
BadCount(r, column) == column \in DOMAIN r /\ r[column] \notin DOMAIN FieldValue

\* C2 amended: every record process_file produces has the date of the file
\* name, whatever the content, and no record is produced for a name that
\* spells no calendar date; the content decides whether a record is
\* produced: with a name that spells a date, a file that has a row and
\* neither region column ends in the classifier's schema error, and a file
\* whose first accepted row has a Confirmed or Deaths field that is neither
\* empty nor an integer ends in an error, a ValueError when both columns are
\* there.
C2_DateFromName ==
    pc = "file_done" =>
        LET A == AcceptedIndexes(active_country, file) IN
        /\ result.err = "" =>
             ValidName(file.name) /\ result.val[1] = NameDate(file.name)
        /\ ( /\ ValidName(file.name)
             /\ Len(file.lines) >= 1
             /\ Range(file.header) \cap {"Country_Region", "Country/Region"} = {} ) =>
             result.err = "Exception"
        /\ (ValidName(file.name) /\ A # {}) =>
             LET first == DictRow(file.header, file.lines[SetMin(A)]) IN
             (BadCount(first, "Confirmed") \/ BadCount(first, "Deaths")) =>
                 /\ result.err # ""
                 /\ {"Confirmed", "Deaths"} \subseteq DOMAIN first =>
                        result.err = "ValueError"

\* A record made of an accepted row, with the date of the name.
C2_Witness ==
    /\ pc = "file_done"
    /\ file.name = Name(1, 22, 2020, TRUE)
    /\ file.header = Header2
    /\ Len(file.lines) = 2
    /\ AcceptedIndexes(active_country, file) # {}
    /\ result.err = ""
    /\ result.val[1] = <<2020, 1, 22>>

\* C3: the counts of the record process_file returns are the integer values
\* of Confirmed and Deaths (empty read as 0) of the first row in file order
\* that the classifier accepts, later accepted rows being ignored; when the
\* classifier accepts no row (it rejects every one), the record is
\* (date, 0, 0) and no error is raised.
C3_FirstAcceptedRow ==
    pc = "file_done" =>
        LET A == AcceptedIndexes(active_country, file) IN
        /\ (result.err = "" /\ A # {}) =>
             LET first == DictRow(file.header, file.lines[SetMin(A)]) IN
             /\ result.val[2] = FieldValue[first["Confirmed"]]
             /\ result.val[3] = FieldValue[first["Deaths"]]
        /\ (result.err = "" /\ A = {}) =>
             result.val[2] = 0 /\ result.val[3] = 0
        /\ ( /\ A = {}
             /\ ValidName(file.name)
             /\ \A i \in 1..Len(file.lines) :
                    Classified(DictRow(file.header, file.lines[i])) ) =>
             result = [err |-> "", val |-> <<NameDate(file.name), 0, 0>>]

C3_Witness ==
    /\ pc = "file_done"
    /\ AcceptedIndexes(active_country, file) = {1, 2}
    /\ file.lines[1][3] = "3"
    /\ file.lines[2][3] = ""
    /\ file.lines[1][4] = ""
    /\ file.lines[2][4] = "1"
    /\ result = [err |-> "", val |-> <<NameDate(file.name), 3, 0>>]

(***************************************************************************)
(* Properties of the series builder, the delta builder and the renderer.   *)
(***************************************************************************)
Loaded == pc \in {"basic", "delta", "exit"} \/ (pc = "failed" /\ error[1] # "get_data")

Bijections(n) == {p \in [1..n -> 1..n] : \A i, j \in 1..n : i # j => p[i] # p[j]}

\* C4: the series get_data returns is sorted non-decreasing by date and holds
\* exactly one record per enumerated file, the record process_file makes of
\* it; files of the same date are all kept, in their enumeration order.
C4_SortedSeries ==
    Loaded =>
        /\ Len(data) = Len(files)
        /\ \A i, j \in 1..Len(data) : i < j => ~DateLess(data[j][1], data[i][1])
        /\ \E p \in Bijections(Len(files)) :
             /\ \A k \in 1..Len(data) :
                  data[k] = process_file(active_country, files[p[k]]).val
             /\ \A k, l \in 1..Len(data) :
                  (k < l /\ data[k][1] = data[l][1]) => p[k] < p[l]

C4_Witness ==
    /\ Loaded
    /\ Len(files) = 3
    /\ files[1].name = Name(1, 22, 2020, FALSE)
    /\ files[2].name = Name(1, 22, 2020, TRUE)
    /\ files[3].name = Name(12, 31, 2019, TRUE)
    /\ data = << <<<<2019, 12, 31>>, 0, 0>>,
                 <<<<2020, 1, 22>>, 3, 1>>,
                 <<<<2020, 1, 22>>, 0, 0>> >>

DeltaAttempted ==
    /\ "delta" \in config.graphs
    /\ pc = "exit" \/ (pc = "failed" /\ error[1] = "delta")

BasicAttempted ==
    /\ "basic" \in config.graphs
    /\ pc \in {"delta", "exit"} \/ (pc = "failed" /\ error[1] \in {"basic", "delta"})

\* C5: for a series of n >= 1 records the delta sequence handed to the
\* renderer has n - 1 entries, the i-th being the date of record i+1 with the
\* differences of confirmed and of deaths between record i+1 and record i,
\* negative or not; the first record gives no entry.
C5_DeltaSeries ==
    DeltaAttempted =>
        /\ Len(data) >= 1 => Len(deltas) = Len(data) - 1
        /\ Len(data) = 0 => deltas = <<>>
        /\ \A i \in 1..Len(deltas) :
             deltas[i] = <<data[i + 1][1],
                           data[i + 1][2] - data[i][2],
                           data[i + 1][3] - data[i][3]>>

C5_Witness ==
    /\ DeltaAttempted
    /\ Len(data) = 3
    /\ Len(deltas) = 2
    /\ deltas[1][2] < 0
    /\ deltas[2][3] > 0
    /\ deltas[1][1] = data[2][1]

\* The series an image was made from, and the index its bars start at.
SeriesOf(img) == IF img.filename.graph_type = "cases" THEN data ELSE deltas

OffsetOf(img) == Len(SeriesOf(img)) - Len(img.x)

Passes(rec) ==
    IF config.any_case THEN rec[2] + rec[3] > 0 ELSE rec[2] > 0 /\ rec[3] > 0

From(s, off) == [k \in 1..(Len(s) - off) |-> s[k + off]]

Column(s, c) == [k \in 1..Len(s) |-> s[k][c]]

IsSuffix(t, s) == \E j \in 0..Len(s) : t = From(s, j)

\* C6: the bars of every image start at the smallest index of its series
\* that passes the test (the sum of the two values positive under any_case,
\* both values positive otherwise); labels, confirmed and deaths are the
\* entries from that index on (the deaths then cut by the shift).
C6_Offset ==
    /\ find_offset(FALSE, <<0, 0, 3, 5>>, <<0, 0, 0, 2>>) = <<3>>
    /\ find_offset(TRUE, <<0, 0, 3, 5>>, <<0, 0, 0, 2>>) = <<2>>
    /\ \A n \in 1..Len(images) :
         LET img == images[n]
             s == SeriesOf(img)
             off == OffsetOf(img) IN
         /\ off \in 0..(Len(s) - 1)
         /\ Passes(s[off + 1])
         /\ \A i \in 0..(off - 1) : ~Passes(s[i + 1])
         /\ img.x = [k \in 1..(Len(s) - off) |-> strftime(s[k + off][1])]
         /\ img.confirmed = From(Column(s, 2), off)
         /\ IsSuffix(img.deaths, From(Column(s, 3), off))
         /\ config.shift \in {<<>>, <<0>>} => img.deaths = From(Column(s, 3), off)

C6_Witness ==
    /\ Len(images) >= 1
    /\ images[1].filename.graph_type = "cases"
    /\ ~config.any_case
    /\ config.shift = <<0>>
    /\ Len(data) = 3
    /\ data[1][2] > 0
    /\ data[2][2] > 0 /\ data[2][3] > 0
    /\ images[1].x = << <<31, "Jan">>, <<1, "Feb">> >>
    /\ images[1].deaths = <<data[2][3], data[3][3]>>

ImagesOf(graph_type) ==
    {n \in 1..Len(images) : images[n].filename.graph_type = graph_type}

NonePasses(s) == \A i \in 1..Len(s) : ~Passes(s[i])

\* C7: when no index of the series passes the test (the empty series too),
\* write_graph ends in an error, the run with it, and no image of that chart
\* is written.
C7_NoData ==
    /\ (BasicAttempted /\ NonePasses(data)) =>
          /\ pc = "failed"
          /\ error = <<"basic", "StopIteration">>
          /\ images = <<>>
    /\ (DeltaAttempted /\ NonePasses(deltas)) =>
          /\ pc = "failed"
          /\ error = <<"delta", "StopIteration">>
          /\ ImagesOf("deltas") = {}

C7_Witness ==
    /\ pc = "failed"
    /\ error = <<"basic", "StopIteration">>
    /\ ~config.any_case
    /\ Len(data) = 3
    /\ data[3][2] = 1
    /\ data[2][3] = -1
    /\ NonePasses(data)
    /\ images = <<>>

\* s without its first k entries; a count below 1 drops none.
DropFirst(s, k) == From(s, Min(Max(k, 0), Len(s)))

\* s cut to its last k entries, all of s when it has no more than k.
KeepLast(s, k) == From(s, Max(Len(s) - k, 0))

ShiftOf(cfg) == IF cfg.shift = <<>> THEN 0 ELSE cfg.shift[1]

\* C8 as stated: for every configured integer shift, the deaths bars are the
\* deaths from the offset on without their first `shift` entries, the
\* confirmed bars and the labels keep the full length from the offset on,
\* the two bar series differ in length whenever shift > 0, and a shift of
\* zero or none leaves the deaths as they are.
C8_AsStated ==
    \A n \in 1..Len(images) :
        LET img == images[n]
            s == SeriesOf(img)
            off == OffsetOf(img)
            d == From(Column(s, 3), off) IN
        /\ img.deaths = DropFirst(d, ShiftOf(config))
        /\ img.confirmed = From(Column(s, 2), off)
        /\ Len(img.x) = Len(img.confirmed)
        /\ ShiftOf(config) > 0 => Len(img.deaths) # Len(img.confirmed)
        /\ ShiftOf(config) = 0 => img.deaths = d

\* C8 for the shifts the statement fits: the same, for every shift >= 0;
\* a shift below 0 renders the last -shift deaths instead.
C8_NonNegativeShift ==
    \A n \in 1..Len(images) :
        LET img == images[n]
            s == SeriesOf(img)
            off == OffsetOf(img)
            d == From(Column(s, 3), off) IN
        /\ ShiftOf(config) >= 0 => img.deaths = DropFirst(d, ShiftOf(config))
        /\ ShiftOf(config) < 0 => img.deaths = KeepLast(d, -ShiftOf(config))
        /\ img.confirmed = From(Column(s, 2), off)
        /\ Len(img.x) = Len(img.confirmed)
        /\ ShiftOf(config) > 0 => Len(img.deaths) # Len(img.confirmed)

NonZeroIndexes(s) == {i \in 1..Len(s) : s[i][2] # 0 \/ s[i][3] # 0}

StartsAtFirstNonZero(graph_type, s) ==
    NonZeroIndexes(s) # {} =>
        \E n \in ImagesOf(graph_type) :
            OffsetOf(images[n]) = SetMin(NonZeroIndexes(s)) - 1

\* C9 as stated: under any_case every chart, of the basic series and of the
\* delta series alike, starts at the first index of its series at which one
\* of the two counts is not zero.
C9_AsStated ==
    config.any_case =>
        /\ BasicAttempted => StartsAtFirstNonZero("cases", data)
        /\ DeltaAttempted => StartsAtFirstNonZero("deltas", deltas)

\* C9 on a basic series that holds no negative count.
C9_BasicSeries ==
    ( /\ config.any_case
      /\ BasicAttempted
      /\ \A i \in 1..Len(data) : data[i][2] >= 0 /\ data[i][3] >= 0 ) =>
        StartsAtFirstNonZero("cases", data)

IsCases(img) == img.filename.graph_type = "cases"

\* C10: a raise ends the run: from a failed run no step follows, so no image
\* is written after it and nothing is tried again; images are written only
\* once the data is loaded, one at a time, the basic one before the delta
\* one; a raise while loading leaves no image, a raise in the basic graph
\* leaves no image and no delta graph, and a raise in the delta graph leaves
\* the basic image, when one was asked for, in place.
C10_FatalAborts ==
    /\ [][pc = "failed" => (pc' = "failed" /\ images' = images /\ error' = error
                             /\ data' = data /\ deltas' = deltas)]_vars
    /\ [][images' # images =>
            /\ pc \in {"basic", "delta"}
            /\ data' = data
            /\ \E img \in {images'[Len(images')]} : images' = Append(images, img)]_vars
    /\ [][data' # data => (pc = "init" /\ images = <<>>)]_vars
    /\ [](pc = "init" => images = <<>>)
    /\ [](\A i, j \in 1..Len(images) :
             i < j => (IsCases(images[i]) /\ ~IsCases(images[j])))
    /\ []((pc = "failed") = (error # <<>>))
    /\ []((pc = "failed" /\ error[1] = "get_data") => (images = <<>> /\ data = <<>>))
    /\ []((pc = "failed" /\ error[1] = "basic") => (images = <<>> /\ deltas = <<>>))
    /\ []((pc = "failed" /\ error[1] = "delta") =>
             IF "basic" \in config.graphs
             THEN Len(images) = 1 /\ IsCases(images[1])
             ELSE images = <<>>)

C10_Witness ==
    /\ pc = "failed"
    /\ error = <<"delta", "StopIteration">>
    /\ Len(files) = 2
    /\ Len(images) = 1
    /\ IsCases(images[1])

====
